---- MODULE Spec2Model ----
(***************************************************************************)
(* Model of src/lib/HdtDocument.cc: the HdtDocument wrapper of an HDT      *)
(* triple store.  The control thread runs CreateAsync, CreateDone,         *)
(* SearchAsync, SearchDone, Close, ClosedGetter, New and the collector;    *)
(* the thread pool runs Create and Search (uv_queue_work).                 *)
(***************************************************************************)
EXTENDS Integers, Sequences, FiniteSets, TLC

\* ---------------------------------------------------------------- bounds
MaxCreates == 2
MaxSearches == 2
MaxDocs == 2

Creates == 1..MaxCreates
Searches == 1..MaxSearches
Docs == 1..MaxDocs

\* ------------------------------------------------------ values and inputs
NULL == 0

NullValue == [tag |-> "Null", message |-> ""]
ErrorValue(msg) == [tag |-> "Error", message |-> msg]
UndefinedValue == [tag |-> "Undefined", doc |-> 0, items |-> <<>>]
ObjectValue(d) == [tag |-> "Object", doc |-> d, items |-> <<>>]
ArrayValue(objs) == [tag |-> "Array", doc |-> 0, items |-> objs]

\* The files createHdtDocument is called on.
Paths == {"good.hdt", "missing.hdt"}

\* HDTManager::mapIndexedHDT: a store for a file it can open, a thrown
\* const char* message otherwise.
MapIndexedHDT(path) ==
  IF path = "good.hdt" THEN [ok |-> TRUE, message |-> ""]
  ELSE [ok |-> FALSE, message |-> "Error opening file"]

\* The triples of the store, in the order its iterators produce them.
StoreTriples == << <<"a", "b", "c">>, <<"e", "f", "g">>, <<"a", "b", "d">> >>

\* The patterns _search is called with.
Patterns == { <<"a", "b", "">>, <<"x", "y", "z">> }

\* One term of a pattern against one term of a triple: "" matches anything.
TermMatch(q, v) == q = "" \/ q = v

TripleMatch(pat, tr) ==
  TermMatch(pat[1], tr[1]) /\ TermMatch(pat[2], tr[2]) /\ TermMatch(pat[3], tr[3])

\* HDT::search followed by exhausting the iterator: the matching triples in
\* encounter order.
StoreSearch(pat) == SelectSeq(StoreTriples, LAMBDA tr : TripleMatch(pat, tr))

\* What a worker can materialize once it reads through a null, dangling or
\* released pointer: anything, the intact answer included.
JunkTriple == <<"?", "?", "?">>
GarbageLists(pat) == { <<JunkTriple>>, StoreSearch(pat) }

\* ------------------------------------------------------------------ state
VARIABLES
  docs,      \* the HdtDocument objects: wrapper state, hdt pointer, creator
  creates,   \* the CreateAsync requests with their CreateArgs
  searches,  \* the SearchAsync requests with their SearchArgs
  deletes,   \* per HDT instance, how many times `delete hdt` ran on it
  crashed,   \* the process: "no", or how it ended
  lastCall   \* what the last synchronous call (close, closed) did

vars == <<docs, creates, searches, deletes, crashed, lastCall>>

NoDoc == [state |-> "absent", hdt |-> NULL, origin |-> 0]

NoCreate ==
  [pc |-> "none", filename |-> "", hdt |-> NULL, error |-> "", calls |-> <<>>,
   work |-> 0, complete |-> 0, disposed |-> 0, disposedAfter |-> 0]

NoSearch ==
  [pc |-> "none", doc |-> 0, pat |-> <<"", "", "">>, it |-> NULL, triples |-> <<>>,
   calls |-> <<>>, atSubmit |-> "", ub |-> FALSE, produced |-> <<>>, released |-> <<>>,
   work |-> 0, complete |-> 0, disposed |-> 0, disposedAfter |-> 0]

NoCall == [op |-> "none", doc |-> 0, before |-> FALSE, value |-> FALSE, calls |-> <<>>]

Init ==
  /\ docs = [d \in Docs |-> NoDoc]
  /\ creates = [c \in Creates |-> NoCreate]
  /\ searches = [s \in Searches |-> NoSearch]
  /\ deletes = [c \in Creates |-> 0]
  /\ crashed = "no"
  /\ lastCall = NoCall

\* ---------------------------------------------------------------- helpers
Running == crashed = "no"

FreeCreates == {c \in Creates : creates[c].pc = "none"}
FreeSearches == {s \in Searches : searches[s].pc = "none"}
FreeDocs == {d \in Docs : docs[d].state = "absent"}
PendingCreates == {c \in Creates : creates[c].pc \in {"queued", "worked"}}

\* Requests and wrappers are allocated in index order.
NextCreate == CHOOSE c \in FreeCreates : \A u \in FreeCreates : c <= u
NextSearch == CHOOSE s \in FreeSearches : \A u \in FreeSearches : s <= u
NextDoc == CHOOSE d \in FreeDocs : \A e \in FreeDocs : d <= e

\* !hdtDocument->hdt, as ClosedGetter and a callback reading `closed` see it.
IsClosed(d) == ~(docs[d].hdt # NULL)

\* What the handle is when a search is submitted on it: never given a store,
\* holding one, or closed.
HandleState(d) ==
  IF docs[d].hdt # NULL THEN "open"
  ELSE IF docs[d].origin = 0 THEN "pending" ELSE "closed"

\* A conversion that puts the terms of a triple in the wrong fields.
TripleObject_Swapped(tr) == [subject |-> tr[3], predicate |-> tr[2], object |-> tr[1]]

\* The boundary record SearchDone builds for one TripleString.
TripleObject(tr) == [subject |-> tr[1], predicate |-> tr[2], object |-> tr[3]]

RECURSIVE TripleObjects(_)
TripleObjects(ts) ==
  IF ts = <<>> THEN <<>> ELSE <<TripleObject(Head(ts))>> \o TripleObjects(Tail(ts))

\* ------------------------------------------------------- Task Dispatcher
\* The pool thread enters the work function of a request.
Enter(args) == [args EXCEPT !.work = @ + 1]

\* The control thread enters the completion function of a request.
Finish(args) == [args EXCEPT !.pc = "done", !.complete = @ + 1]

\* args->callback->Call(..., argc, argv).
Deliver(args, call) == [args EXCEPT !.calls = Append(@, call)]

\* args->callback.Dispose(); delete args; delete request.
Dispose(args) == [args EXCEPT !.disposed = @ + 1, !.disposedAfter = Len(args.calls)]

\* ------------------------------------------------------- Document Handle
\* HdtDocument::HdtDocument: a wrapper with no store.
Constructed(origin) == [state |-> "live", hdt |-> NULL, origin |-> origin]

\* Destroy with the `hdt = NULL` of line 79 left out.
Destroy_KeepsPointer(d) ==
  IF docs[d].hdt # NULL
    THEN [doc |-> docs[d], deletes |-> [deletes EXCEPT ![docs[d].hdt] = @ + 1]]
    ELSE [doc |-> docs[d], deletes |-> deletes]

\* HdtDocument::Destroy on document d: the document and the delete counts after it.
Destroy(d) ==
  IF docs[d].hdt # NULL
    THEN [doc |-> [docs[d] EXCEPT !.hdt = NULL],
          deletes |-> [deletes EXCEPT ![docs[d].hdt] = @ + 1]]
    ELSE [doc |-> docs[d], deletes |-> deletes]

\* HdtDocument::New, called from JavaScript through the shared constructor.
New ==
  /\ Running
  /\ Cardinality(FreeDocs) > Cardinality(PendingCreates)
  /\ docs' = [docs EXCEPT ![NextDoc] = Constructed(0)]
  /\ lastCall' = NoCall
  /\ UNCHANGED <<creates, searches, deletes, crashed>>

\* Close with the callback invoked ahead of Destroy.
Close_CallsBackFirst(d, arg) ==
  /\ Running
  /\ docs[d].state = "live"
  /\ LET argv == [err |-> NullValue, closed |-> IsClosed(d)]
         r == Destroy(d)
     IN /\ docs' = [docs EXCEPT ![d] = r.doc]
        /\ deletes' = r.deletes
        /\ lastCall' = [op |-> "close", doc |-> d, before |-> IsClosed(d),
                        value |-> FALSE,
                        calls |-> IF arg = "function" THEN <<argv>> ELSE <<>>]
  /\ UNCHANGED <<creates, searches, crashed>>

\* HdtDocument::Close: arg is what the caller passed as args[0].
CloseArgs == {"function", "none", "nonfunction"}

Close(d, arg) ==
  /\ Running
  /\ docs[d].state = "live"
  /\ LET r == Destroy(d)
         argv == [err |-> NullValue, closed |-> ~(r.doc.hdt # NULL)]
     IN /\ docs' = [docs EXCEPT ![d] = r.doc]
        /\ deletes' = r.deletes
        /\ lastCall' = [op |-> "close", doc |-> d, before |-> IsClosed(d), value |-> FALSE,
                        calls |-> IF arg = "function" THEN <<argv>> ELSE <<>>]
  /\ UNCHANGED <<creates, searches, crashed>>

\* ClosedGetter with the negation of line 200 left out.
ClosedGetter_ReadsOpen(d) ==
  /\ Running
  /\ docs[d].state = "live"
  /\ lastCall' = [op |-> "closed", doc |-> d, before |-> IsClosed(d),
                  value |-> docs[d].hdt # NULL, calls |-> <<>>]
  /\ UNCHANGED <<docs, creates, searches, deletes, crashed>>

\* HdtDocument::ClosedGetter.
ClosedGetter(d) ==
  /\ Running
  /\ docs[d].state = "live"
  /\ lastCall' = [op |-> "closed", doc |-> d, before |-> IsClosed(d),
                  value |-> IsClosed(d), calls |-> <<>>]
  /\ UNCHANGED <<docs, creates, searches, deletes, crashed>>

\* The caller lets go of the wrapper and the collector finalizes it:
\* HdtDocument::~HdtDocument.
Collect(d) ==
  /\ Running
  /\ docs[d].state = "live"
  /\ LET r == Destroy(d)
     IN /\ docs' = [docs EXCEPT ![d] = [r.doc EXCEPT !.state = "collected"]]
        /\ deletes' = r.deletes
  /\ lastCall' = NoCall
  /\ UNCHANGED <<creates, searches, crashed>>

\* --------------------------------------------------------- Open operation
\* HdtDocument::CreateAsync.
CreateAsync(path) ==
  /\ Running
  /\ FreeCreates # {}
  /\ Cardinality(FreeDocs) > Cardinality(PendingCreates)
  /\ creates' = [creates EXCEPT ![NextCreate] =
                   [NoCreate EXCEPT !.pc = "queued", !.filename = path]]
  /\ lastCall' = NoCall
  /\ UNCHANGED <<docs, searches, deletes, crashed>>

\* Create with a catch block that drops the message.
Create_LosesMessage(c) ==
  /\ Running
  /\ creates[c].pc = "queued"
  /\ LET r == MapIndexedHDT(creates[c].filename)
     IN creates' = [creates EXCEPT ![c] =
                      IF r.ok THEN [Enter(@) EXCEPT !.pc = "worked", !.hdt = c]
                      ELSE [Enter(@) EXCEPT !.pc = "worked"]]
  /\ lastCall' = NoCall
  /\ UNCHANGED <<docs, searches, deletes, crashed>>

\* HdtDocument::Create, on a pool thread.  The HDT instance a successful
\* open returns is named after the request that made it.
Create(c) ==
  /\ Running
  /\ creates[c].pc = "queued"
  /\ LET r == MapIndexedHDT(creates[c].filename)
     IN creates' = [creates EXCEPT ![c] =
                      IF r.ok THEN [Enter(@) EXCEPT !.pc = "worked", !.hdt = c]
                      ELSE [Enter(@) EXCEPT !.pc = "worked", !.error = r.message]]
  /\ lastCall' = NoCall
  /\ UNCHANGED <<docs, searches, deletes, crashed>>

\* CreateDone with the callback invoked ahead of the assignment of line 53.
CreateDone_CallsBackFirst(c) ==
  /\ Running
  /\ creates[c].pc = "worked"
  /\ LET args == creates[c]
         d == NextDoc
         newDocument == Constructed(c)
     IN IF args.hdt # NULL
          THEN /\ docs' = [docs EXCEPT ![d] = [newDocument EXCEPT !.hdt = args.hdt]]
               /\ creates' = [creates EXCEPT ![c] =
                    Dispose(Deliver(Finish(@), [err |-> NullValue, res |-> ObjectValue(d),
                                          closed |-> ~(newDocument.hdt # NULL)]))]
          ELSE /\ docs' = docs
               /\ creates' = [creates EXCEPT ![c] =
                    Dispose(Deliver(Finish(@), [err |-> ErrorValue(args.error),
                                          res |-> UndefinedValue,
                                          closed |-> TRUE]))]
  /\ lastCall' = NoCall
  /\ UNCHANGED <<searches, deletes, crashed>>

\* CreateDone with the else branch of line 55 left out.
CreateDone_NoError(c) ==
  /\ Running
  /\ creates[c].pc = "worked"
  /\ LET args == creates[c]
         d == NextDoc
         hdtDocument == [Constructed(c) EXCEPT !.hdt = args.hdt]
     IN IF args.hdt # NULL
          THEN /\ docs' = [docs EXCEPT ![d] = hdtDocument]
               /\ creates' = [creates EXCEPT ![c] =
                    Dispose(Deliver(Finish(@), [err |-> NullValue, res |-> ObjectValue(d),
                                          closed |-> ~(hdtDocument.hdt # NULL)]))]
          ELSE /\ docs' = docs
               /\ creates' = [creates EXCEPT ![c] =
                    Dispose(Deliver(Finish(@), [err |-> NullValue,
                                          res |-> UndefinedValue,
                                          closed |-> TRUE]))]
  /\ lastCall' = NoCall
  /\ UNCHANGED <<searches, deletes, crashed>>

\* A completion that hands the store to a wrapper that already exists.
CreateDone_ReusesWrapper(c) ==
  /\ Running
  /\ creates[c].pc = "worked"
  /\ LET args == creates[c]
         made == {x \in Docs : docs[x].state = "live" /\ docs[x].origin # 0}
         d == IF made = {} THEN NextDoc ELSE CHOOSE x \in made : \A y \in made : x <= y
         hdtDocument == IF made = {} THEN [Constructed(c) EXCEPT !.hdt = args.hdt]
                        ELSE [docs[d] EXCEPT !.hdt = args.hdt]
     IN IF args.hdt # NULL
          THEN /\ docs' = [docs EXCEPT ![d] = hdtDocument]
               /\ creates' = [creates EXCEPT ![c] =
                    Dispose(Deliver(Finish(@), [err |-> NullValue, res |-> ObjectValue(d),
                                                closed |-> ~(hdtDocument.hdt # NULL)]))]
          ELSE /\ docs' = docs
               /\ creates' = [creates EXCEPT ![c] =
                    Dispose(Deliver(Finish(@), [err |-> ErrorValue(args.error),
                                                res |-> UndefinedValue,
                                                closed |-> TRUE]))]
  /\ lastCall' = NoCall
  /\ UNCHANGED <<searches, deletes, crashed>>

\* HdtDocument::CreateDone, on the control thread.
CreateDone(c) ==
  /\ Running
  /\ creates[c].pc = "worked"
  /\ LET args == creates[c]
         d == NextDoc
         hdtDocument == [Constructed(c) EXCEPT !.hdt = args.hdt]
     IN IF args.hdt # NULL
          THEN /\ docs' = [docs EXCEPT ![d] = hdtDocument]
               /\ creates' = [creates EXCEPT ![c] =
                    Dispose(Deliver(Finish(@), [err |-> NullValue, res |-> ObjectValue(d),
                                          closed |-> ~(hdtDocument.hdt # NULL)]))]
          ELSE /\ docs' = docs
               /\ creates' = [creates EXCEPT ![c] =
                    Dispose(Deliver(Finish(@), [err |-> ErrorValue(args.error),
                                          res |-> UndefinedValue,
                                          closed |-> TRUE]))]
  /\ lastCall' = NoCall
  /\ UNCHANGED <<searches, deletes, crashed>>

\* ------------------------------------------------------- Search operation
\* HdtDocument::SearchAsync.
SearchAsync(d, pat) ==
  /\ Running
  /\ docs[d].state = "live"
  /\ FreeSearches # {}
  /\ searches' = [searches EXCEPT ![NextSearch] =
                    [NoSearch EXCEPT !.pc = "queued", !.doc = d, !.pat = pat,
                                     !.atSubmit = HandleState(d)]]
  /\ lastCall' = NoCall
  /\ UNCHANGED <<docs, creates, deletes, crashed>>

\* The process dies in the worker of request s.  The other requests go with
\* it; the handles are kept as the worker found them.
Die(s, args, how, ub) ==
  /\ crashed' = how
  /\ searches' = [x \in Searches |->
                    IF x = s THEN [args EXCEPT !.pc = how, !.it = NULL, !.ub = ub]
                    ELSE NoSearch]
  /\ creates' = [c \in Creates |-> NoCreate]
  /\ UNCHANGED <<docs, deletes>>

\* The worker goes on to the end of its phase.
Proceed(s, args) ==
  /\ searches' = [searches EXCEPT ![s] = args]
  /\ UNCHANGED <<docs, creates, deletes, crashed>>

\* args->triples.push_back(new TripleString(...)) for each triple of ts.
Materialize(args, ts) ==
  [args EXCEPT !.pc = "worked", !.it = NULL, !.triples = ts, !.produced = ts,
               !.released = [i \in 1..Len(ts) |-> 0]]

\* The worker of request s went through a null, dangling or released
\* pointer: the process dies, or the worker carries on with whatever it read.
Undefined(s, args) ==
  \/ Die(s, args, "segv", TRUE)
  \/ \E g \in GarbageLists(args.pat) :
       Proceed(s, [Materialize(args, g) EXCEPT !.ub = TRUE])

\* What the store's search call does: hands out an iterator, or throws.
SearchOutcomes == {"iterator", "throw"}

\* HdtDocument::Search up to the iterator, on a pool thread: reads
\* args->hdtDocument->hdt and calls search on it.  Nothing catches a throw:
\* it leaves the thread's function and std::terminate ends the process.
SearchBegin(s) ==
  /\ Running
  /\ searches[s].pc = "queued"
  /\ LET args == Enter(searches[s])
         d == args.doc
     IN IF docs[d].state = "collected" \/ docs[d].hdt = NULL
          THEN Undefined(s, args)
          ELSE \E outcome \in SearchOutcomes :
                 IF outcome = "iterator"
                   THEN Proceed(s, [args EXCEPT !.pc = "iterating", !.it = docs[d].hdt])
                   ELSE Die(s, args, "terminate", FALSE)
  /\ lastCall' = NoCall

\* Search with `if (it->hasNext())` for the while of line 146.
SearchIterate_FirstOnly(s) ==
  /\ Running
  /\ searches[s].pc = "iterating"
  /\ IF deletes[searches[s].it] > 0
       THEN Undefined(s, searches[s])
       ELSE LET found == StoreSearch(searches[s].pat)
            IN Proceed(s, Materialize(searches[s],
                                      IF found = <<>> THEN <<>> ELSE <<Head(found)>>))
  /\ lastCall' = NoCall

\* A worker that materializes into a vector every request of the handle shares.
SearchIterate_SharedList(s) ==
  /\ Running
  /\ searches[s].pc = "iterating"
  /\ IF deletes[searches[s].it] > 0
       THEN Undefined(s, searches[s])
       ELSE LET found == StoreSearch(searches[s].pat)
            IN /\ searches' = [x \in Searches |->
                    IF x = s THEN Materialize(searches[s], found)
                    ELSE IF searches[x].pc = "worked" /\ searches[x].doc = searches[s].doc
                           THEN [searches[x] EXCEPT !.triples = found]
                           ELSE searches[x]]
               /\ UNCHANGED <<docs, creates, deletes, crashed>>
  /\ lastCall' = NoCall

\* HdtDocument::Search, the loop over the iterator and its delete.
SearchIterate(s) ==
  /\ Running
  /\ searches[s].pc = "iterating"
  /\ IF deletes[searches[s].it] > 0
       THEN Undefined(s, searches[s])
       ELSE Proceed(s, Materialize(searches[s], StoreSearch(searches[s].pat)))
  /\ lastCall' = NoCall

\* A completion that does not wait for the end of the worker phase.
SearchDone_BeforeWorkEnds(s) ==
  /\ Running
  /\ searches[s].pc \in {"iterating", "worked"}
  /\ LET args == Finish(searches[s])
         triples == ArrayValue(TripleObjects(args.triples))
         freed == [args EXCEPT !.triples = <<>>,
                               !.released = [i \in DOMAIN @ |-> @[i] + 1]]
     IN searches' = [searches EXCEPT ![s] =
          Dispose(Deliver(freed, [err |-> NullValue, res |-> triples,
                                  closed |-> IsClosed(args.doc)]))]
  /\ lastCall' = NoCall
  /\ UNCHANGED <<docs, creates, deletes, crashed>>

\* A completion that deletes the request before it invokes the callback.
SearchDone_DisposesFirst(s) ==
  /\ Running
  /\ searches[s].pc = "worked"
  /\ LET args == Finish(searches[s])
         triples == ArrayValue(TripleObjects(args.triples))
         freed == [args EXCEPT !.triples = <<>>,
                               !.released = [i \in DOMAIN @ |-> @[i] + 1]]
     IN searches' = [searches EXCEPT ![s] =
          Deliver(Dispose(freed), [err |-> NullValue, res |-> triples,
                                   closed |-> IsClosed(args.doc)])]
  /\ lastCall' = NoCall
  /\ UNCHANGED <<docs, creates, deletes, crashed>>

\* HdtDocument::SearchDone, on the control thread.
SearchDone(s) ==
  /\ Running
  /\ searches[s].pc = "worked"
  /\ LET args == Finish(searches[s])
         triples == ArrayValue(TripleObjects(args.triples))
         freed == [args EXCEPT !.triples = <<>>,
                               !.released = [i \in DOMAIN @ |-> @[i] + 1]]
     IN searches' = [searches EXCEPT ![s] =
          Dispose(Deliver(freed, [err |-> NullValue, res |-> triples,
                                  closed |-> IsClosed(args.doc)]))]
  /\ lastCall' = NoCall
  /\ UNCHANGED <<docs, creates, deletes, crashed>>

\* ---------------------------------------------------------- specification
Next ==
  \/ New
  \/ \E d \in Docs, arg \in CloseArgs : Close(d, arg)
  \/ \E d \in Docs : ClosedGetter(d)
  \/ \E d \in Docs : Collect(d)
  \/ \E path \in Paths : CreateAsync(path)
  \/ \E c \in Creates : Create(c)
  \/ \E c \in Creates : CreateDone(c)
  \/ \E d \in Docs, pat \in Patterns : SearchAsync(d, pat)
  \/ \E s \in Searches : SearchBegin(s)
  \/ \E s \in Searches : SearchIterate(s)
  \/ \E s \in Searches : SearchDone(s)

Spec == Init /\ [][Next]_vars

\* Opening, closing and reading handles, with no search submitted.  A request
\* queued with uv_queue_work gets its worker phase and then its completion.
NextOpen ==
  \/ New
  \/ \E d \in Docs, arg \in CloseArgs : Close(d, arg)
  \/ \E d \in Docs : ClosedGetter(d)
  \/ \E d \in Docs : Collect(d)
  \/ \E path \in Paths : CreateAsync(path)
  \/ \E c \in Creates : Create(c)
  \/ \E c \in Creates : CreateDone(c)

FairOpen ==
  /\ Init
  /\ [][NextOpen]_vars
  /\ \A c \in Creates : WF_vars(Create(c)) /\ WF_vars(CreateDone(c))

\* The searches submitted on handle d whose callback has not fired yet.
InFlight(d) ==
  {s \in Searches : searches[s].doc = d /\ searches[s].pc \in {"queued", "iterating", "worked"}}

\* The program driven by a caller that serializes: it calls close() on a handle
\* only when the callback of every search it submitted on that handle has
\* fired, and it searches only handles that hold a store.
NextSerial ==
  \/ New
  \/ \E d \in Docs, arg \in CloseArgs : InFlight(d) = {} /\ Close(d, arg)
  \/ \E d \in Docs : ClosedGetter(d)
  \/ \E d \in Docs : Collect(d)
  \/ \E path \in Paths : CreateAsync(path)
  \/ \E c \in Creates : Create(c)
  \/ \E c \in Creates : CreateDone(c)
  \/ \E d \in Docs, pat \in Patterns : HandleState(d) = "open" /\ SearchAsync(d, pat)
  \/ \E s \in Searches : SearchBegin(s)
  \/ \E s \in Searches : SearchIterate(s)
  \/ \E s \in Searches : SearchDone(s)

SerialSpec == Init /\ [][NextSerial]_vars

\* ----------------------------------------------------------------- claims
Range(f) == {f[i] : i \in DOMAIN f}

\* C1: a createDocument call on a path the store can open eventually has its
\* callback invoked, once and never again, and a callback given a handle finds
\* the store attached to it (closed reads false while the callback runs).
OpenCallbackSafe(c) ==
  /\ Len(creates[c].calls) <= 1
  /\ creates[c].pc = "done" => Len(creates[c].calls) = 1
  /\ creates[c].pc # "done" => creates[c].calls = <<>>
  /\ \A call \in Range(creates[c].calls) :
       call.res.tag = "Object" =>
         /\ call.closed = FALSE
         /\ docs[call.res.doc].origin = c
         /\ MapIndexedHDT(creates[c].filename).ok

C1_OpenCallsBackOnce ==
  /\ [](\A c \in Creates : OpenCallbackSafe(c))
  /\ \A c \in Creates :
       (creates[c].pc = "queued" /\ MapIndexedHDT(creates[c].filename).ok)
         ~> (/\ creates[c].pc = "done"
             /\ Len(creates[c].calls) = 1
             /\ creates[c].calls[1].err = NullValue
             /\ creates[c].calls[1].res.tag = "Object")

C1_Witness ==
  \E c \in Creates :
    /\ creates[c].pc = "done"
    /\ creates[c].filename = "good.hdt"
    /\ Len(creates[c].calls) = 1
    /\ creates[c].calls[1].res.tag = "Object"
    /\ creates[c].calls[1].closed = FALSE

\* C2: a createDocument call on a path the store fails to open has its
\* callback invoked once, with an error carrying the store's message and no
\* handle, and no document is made for it.
C2_OpenFailureReported ==
  \A c \in Creates :
    (creates[c].pc # "none" /\ ~MapIndexedHDT(creates[c].filename).ok) =>
      /\ Len(creates[c].calls) <= 1
      /\ creates[c].pc # "done" => creates[c].calls = <<>>
      /\ creates[c].pc = "done" =>
           /\ Len(creates[c].calls) = 1
           /\ creates[c].calls[1].err =
                ErrorValue(MapIndexedHDT(creates[c].filename).message)
           /\ creates[c].calls[1].err.message # ""
           /\ creates[c].calls[1].res = UndefinedValue
      /\ \A d \in Docs : docs[d].origin # c

C2_Witness ==
  \E c \in Creates :
    /\ creates[c].pc = "done"
    /\ creates[c].filename = "missing.hdt"
    /\ Len(creates[c].calls) = 1
    /\ creates[c].calls[1].err.tag = "Error"

\* The triples of the store as a set, and those a pattern matches.
StoreSet == Range(StoreTriples)
Matching(pat) == {tr \in StoreSet : TripleMatch(pat, tr)}

\* C3: a search on an open handle that is not closed while the search is in
\* flight has its callback invoked once, with no error and a list holding
\* exactly the store's triples that match the pattern ("" matches anything);
\* the list is empty iff nothing matches.
C3_SearchReturnsMatches ==
  \A s \in Searches :
    /\ Len(searches[s].calls) <= 1
    /\ searches[s].pc = "done" => Len(searches[s].calls) = 1
    /\ searches[s].pc \in {"queued", "iterating", "worked"} => searches[s].calls = <<>>
    /\ \A call \in Range(searches[s].calls) :
         call.closed = FALSE =>
           /\ ~searches[s].ub
           /\ call.err = NullValue
           /\ call.res.tag = "Array"
           /\ Range(call.res.items) = {TripleObject(tr) : tr \in Matching(searches[s].pat)}
           /\ Len(call.res.items) = Cardinality(Matching(searches[s].pat))
           /\ (call.res.items = <<>>) <=> (Matching(searches[s].pat) = {})

C3_Witness ==
  \E s \in Searches :
    /\ searches[s].pc = "done"
    /\ searches[s].atSubmit = "open"
    /\ Len(searches[s].calls) = 1
    /\ searches[s].calls[1].closed = FALSE
    /\ Len(searches[s].calls[1].res.items) = 2

\* C4: a search submitted on a handle after close() has its callback invoked
\* once with no error and an empty list, and its worker phase never goes
\* through the absent store reference.
C4_SearchAfterCloseIsEmpty ==
  \A s \in Searches :
    searches[s].atSubmit = "closed" =>
      /\ ~searches[s].ub
      /\ searches[s].pc \notin {"segv", "terminate"}
      /\ searches[s].pc = "done" =>
           /\ Len(searches[s].calls) = 1
           /\ searches[s].calls[1].err = NullValue
           /\ searches[s].calls[1].res = ArrayValue(<<>>)

\* C5: two searches submitted on the same open handle and then close() on it:
\* whatever the interleaving, each callback fires once with the list for its
\* own pattern, and no worker phase reads a store reference close() released.
C5_CloseAfterTwoSearches ==
  \A s1, s2 \in Searches :
    (/\ s1 # s2
     /\ searches[s1].atSubmit = "open" /\ searches[s2].atSubmit = "open"
     /\ searches[s1].doc = searches[s2].doc
     /\ docs[searches[s1].doc].state = "live"
     /\ IsClosed(searches[s1].doc)) =>
      /\ ~searches[s1].ub
      /\ searches[s1].pc # "segv"
      /\ searches[s1].pc = "done" =>
           /\ Len(searches[s1].calls) = 1
           /\ searches[s1].calls[1].err = NullValue
           /\ searches[s1].calls[1].res =
                ArrayValue(TripleObjects(StoreSearch(searches[s1].pat)))

\* C6: close() is idempotent: every close leaves the handle closed, a close of
\* a closed handle changes neither the handle nor the store and reports no
\* error, and no store is released twice.
C6_CloseIdempotent ==
  /\ [](\A c \in Creates : deletes[c] <= 1)
  /\ [][\A d \in Docs, arg \in CloseArgs :
          Close(d, arg) =>
            /\ IsClosed(d)'
            /\ \A call \in Range(lastCall'.calls) : call.err = NullValue
            /\ IsClosed(d) => (docs' = docs /\ deletes' = deletes)]_vars

C6_Witness ==
  /\ lastCall.op = "close"
  /\ lastCall.before
  /\ docs[lastCall.doc].origin # 0
  /\ deletes[docs[lastCall.doc].origin] = 1

\* C7: a failure the store raises in the worker phase of a search is kept in
\* the request and delivered to the callback as (Error(message), undefined);
\* it never leaves the worker phase as a raw fault.
C7_SearchFailureReported ==
  /\ crashed # "terminate"
  /\ \A s \in Searches : searches[s].pc # "terminate"

\* C8: every invocation of an Open or Search callback is error-first: exactly
\* one of its two arguments, the error and the result, is non-empty.
ErrorFirst(call) == (call.err.tag # "Null") # (call.res.tag # "Undefined")

C8_ErrorFirst ==
  /\ \A c \in Creates : \A call \in Range(creates[c].calls) : ErrorFirst(call)
  /\ \A s \in Searches : \A call \in Range(searches[s].calls) : ErrorFirst(call)

C8_Witness ==
  /\ \E c \in Creates : \E call \in Range(creates[c].calls) : call.err.tag = "Error"
  /\ \E c \in Creates : \E call \in Range(creates[c].calls) : call.res.tag = "Object"
  /\ \E s \in Searches : \E call \in Range(searches[s].calls) : call.res.tag = "Array"

\* C9: for every handle, constructed, opened or closed, the closed property
\* reads true exactly when the handle holds no store, and reading it changes
\* neither a handle nor a request in flight.
C9_ClosedIffNoStore ==
  [][\A d \in Docs :
       ClosedGetter(d) =>
         /\ lastCall'.op = "closed"
         /\ lastCall'.value = (docs[d].hdt = NULL)
         /\ UNCHANGED <<docs, creates, searches, deletes, crashed>>]_vars

C9_Witness ==
  /\ lastCall.op = "closed"
  /\ lastCall.value
  /\ docs[lastCall.doc].origin # 0
  /\ \E s \in Searches : searches[s].pc \in {"queued", "iterating", "worked"}

\* C10: close(callback) releases the store within the call, before the
\* callback runs, and invokes the callback once with no error; with no
\* callback, or an argument that is no function, nothing is invoked and the
\* handle is closed all the same.
C10_CloseThenCallback ==
  [][\A d \in Docs, arg \in CloseArgs :
       Close(d, arg) =>
         /\ IsClosed(d)'
         /\ lastCall'.op = "close"
         /\ lastCall'.calls =
              IF arg = "function" THEN <<[err |-> NullValue, closed |-> TRUE]>>
              ELSE <<>>]_vars

C10_Witness ==
  /\ lastCall.op = "close"
  /\ ~lastCall.before
  /\ Len(lastCall.calls) = 1
  /\ IsClosed(lastCall.doc)

\* Submitting requests and closing handles under the dispatcher's scheduling:
\* a queued request gets its worker phase, and a request whose worker phase
\* ended gets its completion.
NextTasks ==
  \/ \E d \in Docs : Close(d, "none")
  \/ \E path \in Paths : CreateAsync(path)
  \/ \E c \in Creates : Create(c)
  \/ \E c \in Creates : CreateDone(c)
  \/ \E d \in Docs, pat \in Patterns : SearchAsync(d, pat)
  \/ \E s \in Searches : SearchBegin(s)
  \/ \E s \in Searches : SearchIterate(s)
  \/ \E s \in Searches : SearchDone(s)

FairTasks ==
  /\ Init
  /\ [][NextTasks]_vars
  /\ \A c \in Creates : WF_vars(Create(c)) /\ WF_vars(CreateDone(c))
  /\ \A s \in Searches :
       WF_vars(SearchBegin(s)) /\ WF_vars(SearchIterate(s)) /\ WF_vars(SearchDone(s))

\* C11: every submitted task has its worker phase run once and its completion
\* phase run once, the completion starting only when the worker phase has ended
\* and written the result slot; nothing orders the completions of two tasks.
TaskPhasesOnce(args) ==
  /\ args.work <= 1
  /\ args.complete <= 1
  /\ args.pc = "queued" => args.work = 0 /\ args.complete = 0
  /\ args.pc \in {"iterating", "worked"} => args.work = 1 /\ args.complete = 0
  /\ args.pc = "done" => args.work = 1 /\ args.complete = 1

C12_InputsSnapshotted ==
  \A s \in Searches :
    (searches[s].pc = "queued" /\ docs[searches[s].doc].state = "live") =>
      HandleState(searches[s].doc) = searches[s].atSubmit

\* C13: closing is one-way: a handle that was given a store and holds none any
\* more is never given a store again, whatever runs afterwards (an open
\* completion, a search, a close, a read of closed).
C13_ClosedIsFinal ==
  [][\A d \in Docs :
       (docs[d].state # "absent" /\ docs[d].origin # 0 /\ docs[d].hdt = NULL) =>
         docs'[d].hdt = NULL]_vars

\* A closed handle was searched and then read, while a later open completed.
C13_Witness ==
  /\ lastCall.op = "closed"
  /\ lastCall.value
  /\ docs[lastCall.doc].origin = 1
  /\ \E s \in Searches :
       /\ searches[s].doc = lastCall.doc
       /\ searches[s].atSubmit = "closed"
       /\ searches[s].pc = "done"
  /\ \E d \in Docs : docs[d].origin = 2 /\ docs[d].hdt # NULL

\* C14: a store reference has one owner: no two handles hold the same store,
\* the store a successful open produced is attached to exactly one handle, the
\* one made for that request, and across close() and the handle's destruction
\* a store is released at most once and never while a handle still holds it.
C14_StoreExclusivelyOwned ==
  /\ \A d1, d2 \in Docs :
       (d1 # d2 /\ docs[d1].hdt # NULL) => docs[d1].hdt # docs[d2].hdt
  /\ \A d \in Docs :
       docs[d].hdt # NULL =>
         /\ docs[d].hdt = docs[d].origin
         /\ docs[d].state = "live"
         /\ deletes[docs[d].hdt] = 0
  /\ \A c \in Creates :
       /\ deletes[c] <= 1
       /\ (creates[c].pc = "done" /\ creates[c].hdt # NULL) =>
            /\ Cardinality({d \in Docs : docs[d].origin = c}) = 1
            /\ docs[creates[c].calls[1].res.doc].origin = c
            /\ \/ docs[creates[c].calls[1].res.doc].hdt = creates[c].hdt
               \/ deletes[c] = 1
       /\ creates[c].pc \in {"queued", "worked"} => \A d \in Docs : docs[d].origin # c

\* One store was released by close() and its handle then destroyed, while the
\* handle of a second open still holds its own store.
C14_Witness ==
  \E d1, d2 \in Docs :
    /\ docs[d1].state = "collected" /\ docs[d1].origin # 0 /\ deletes[docs[d1].origin] = 1
    /\ docs[d2].state = "live" /\ docs[d2].hdt # NULL /\ docs[d2].hdt # docs[d1].origin
    /\ creates[docs[d2].origin].pc = "done"

\* C15: no request outlives its completion: its record, its callback reference
\* and its uv request are deleted once, by the completion phase and after the
\* caller's callback has been invoked, and nothing touches the request again
\* while the process runs.
TaskDisposedOnce(args) ==
  /\ args.disposed <= 1
  /\ args.disposed = 1 <=> args.pc = "done"
  /\ args.disposed = 1 =>
       /\ args.complete = 1
       /\ Len(args.calls) = 1
       /\ args.disposedAfter = 1

C15_TaskFreedAfterCallback ==
  /\ [](/\ \A c \in Creates : TaskDisposedOnce(creates[c])
        /\ \A s \in Searches : TaskDisposedOnce(searches[s]))
  /\ [][/\ \A c \in Creates :
             creates[c].disposed = 1 => (creates'[c] = creates[c] \/ ~Running')
        /\ \A s \in Searches :
             searches[s].disposed = 1 => (searches'[s] = searches[s] \/ ~Running')]_vars

\* An open and a search were both completed and deleted, and the handle was
\* used again afterwards.
C15_Witness ==
  /\ \E c \in Creates : creates[c].disposed = 1 /\ creates[c].disposedAfter = 1
  /\ \E s \in Searches : searches[s].disposed = 1 /\ searches[s].disposedAfter = 1
  /\ lastCall.op = "close"

\* C16: the array a search callback receives is as long as the sequence the
\* iterator yielded in the worker phase and holds its triples in the order
\* they were met, each with its subject, predicate and object unchanged; and
\* every TripleString the worker materialized is deleted exactly once.
C16_ArrayMirrorsIterator ==
  \A s \in Searches :
    /\ searches[s].pc = "worked" =>
         /\ searches[s].triples = searches[s].produced
         /\ searches[s].released = [i \in 1..Len(searches[s].produced) |-> 0]
    /\ searches[s].pc = "done" =>
         LET items == searches[s].calls[1].res.items
             produced == searches[s].produced
         IN /\ Len(items) = Len(produced)
            /\ \A i \in 1..Len(produced) :
                 /\ items[i].subject = produced[i][1]
                 /\ items[i].predicate = produced[i][2]
                 /\ items[i].object = produced[i][3]
            /\ searches[s].released = [i \in 1..Len(produced) |-> 1]
            /\ searches[s].triples = <<>>

\* A search that yielded two triples has delivered them.
C16_Witness ==
  \E s \in Searches :
    /\ searches[s].pc = "done"
    /\ ~searches[s].ub
    /\ Len(searches[s].produced) = 2
    /\ searches[s].produced[1] # searches[s].produced[2]
    /\ Len(searches[s].calls[1].res.items) = 2

\* C17: searches in flight together on one open handle that is not closed do
\* not interfere: whatever the interleaving, each callback receives the list
\* its search returns when it runs alone, and the phases of one request leave
\* the inputs and the result list of every other request as they were.
RunAlone(pat) == ArrayValue(TripleObjects(StoreSearch(pat)))

C17_SearchesIndependent ==
  /\ [](\A s1, s2 \in Searches :
          (/\ s1 # s2
           /\ searches[s1].doc = searches[s2].doc
           /\ searches[s1].pc = "done"
           /\ searches[s2].pc # "none"
           /\ searches[s1].calls[1].closed = FALSE) =>
            /\ searches[s1].calls[1].res = RunAlone(searches[s1].pat)
            /\ searches[s1].calls[1].err = NullValue)
  /\ [][\A s \in Searches :
          (searches[s].pc # "none" /\ Running') =>
            /\ searches'[s].pat = searches[s].pat
            /\ searches'[s].doc = searches[s].doc
            /\ \A x \in Searches \ {s} :
                 searches'[x] # searches[x] =>
                   /\ searches'[s].triples = searches[s].triples
                   /\ searches'[s].produced = searches[s].produced
                   /\ searches'[s].calls = searches[s].calls]_vars

\* Two searches with different patterns were in flight together on one open
\* handle: the first has delivered its list while the second, whose worker
\* phase has ended, still waits for its completion.
C17_Witness ==
  /\ searches[1].pc = "done" /\ searches[2].pc = "worked"
  /\ searches[1].doc = searches[2].doc
  /\ searches[1].pat # searches[2].pat
  /\ searches[1].calls[1].closed = FALSE
  /\ ~IsClosed(searches[2].doc)
  /\ searches[2].triples # <<>>

\* C18: when the caller calls close() on a handle only after the callbacks of
\* all the searches it submitted on that handle have fired, no worker phase
\* ever reads a store reference that is absent or already released.
C18_SerializedCloseIsSafe ==
  \A s \in Searches :
    /\ ~searches[s].ub
    /\ searches[s].pc # "segv"

\* C19: a handle a search was submitted on stays alive until the completion
\* phase of that search has run: its destructor does not run while the search
\* is queued or in its worker phase, even when the caller has dropped every
\* reference to the handle.
C19_HandleOutlivesSearch ==
  \A s \in Searches :
    searches[s].pc \in {"queued", "iterating", "worked"} =>
      docs[searches[s].doc].state = "live"

====
